---- MODULE Spec2Model ----
(***************************************************************************)
(* Model of the match session coordinator of chess-api (package game):     *)
(* one Match, its two player slots, the per-player buffered event          *)
(* channels, the session RWMutex, the calls of Join / MoveAs / Resign in   *)
(* progress and the JoinMatch streaming handlers.                          *)
(*                                                                         *)
(* Granularity.  A stretch of code that runs under m.Lock() without        *)
(* blocking is one atomic step (no other goroutine can observe its         *)
(* middle).  A step boundary is placed wherever the code can block or has  *)
(* released the lock:                                                      *)
(*   Join   : lock+body | send to player1 | send to player2 + unlock       *)
(*   MoveAs : doMove (lock..unlock) | RLock read of oppEvents | send/drop  *)
(*   Resign : lock + Chess.Resign + pick opponent | send + ShutDown+unlock *)
(* A blocking channel send is a step that is enabled only when the         *)
(* channel is non-nil and not full; a send on a nil channel never is.      *)
(*                                                                         *)
(* Goroutines that call the Match API are anonymous: what the state holds  *)
(* is the activation that owns the lock (lockHolder) and the bag of MoveAs *)
(* activations that are past doMove (inflight).  A call that has not yet   *)
(* acquired the lock has no effect and no state.                           *)
(*                                                                         *)
(* The registry (MatchStorage) maps ids to matches.  The first match is    *)
(* the one modelled in full; matches created later are known by their id   *)
(* and EndTime only.  Each match has a sweeper goroutine:                  *)
(*   sweeper: Sleep + select (the branch is chosen) | Lock; delete; return *)
(* Time is the clock of time.Now(), advanced between steps.  A board read  *)
(* holds the read side of the session RWMutex from RLock to RUnlock.       *)
(***************************************************************************)
EXTENDS Integers, Sequences, FiniteSets, Bags, TLC

\* ---------------------------------------------------------------- bounds
\* cap on the number of Join calls
MaxJoins == 3
\* cap on the number of plies played
MaxPly == 2
\* cap on the number of Resign calls
MaxResigns == 2
\* cap on the number of MoveAs calls that are between doMove and their send
MaxInFlight == 2
\* the same caps in the long runs that fill an outbox
MaxPlyLong == 19
MaxResignsLong == 1
MaxInFlightLong == 1
\* the same caps in the runs of the HTTP handlers
MaxPlyStream == 1
MaxInFlightStream == 1
\* the same caps in the runs with callers that never joined
MaxJoinsOut == 2
MaxPlyOut == 2
MaxResignsOut == 1
MaxInFlightOut == 1
\* cap on the number of NewMatch calls made after the first
MaxOthers == 1
\* caps in the runs with board reads; MaxReaders board reads at a time
MaxPlyBoard == 1
MaxResignsBoard == 1
MaxInFlightBoard == 1
MaxReaders == 2
\* move requests: calls to Join, plies
MaxJoinsReq == 2
MaxPlyReq == 2
MaxInFlightReq == 1
\* concurrent moves and a resignation: plies, calls to Resign, MoveAs in flight
MaxPlyOrder == 3
MaxResignsOrder == 1
MaxInFlightOrder == 2
\* every operation side by side: plies, calls to Resign, MoveAs in flight,
\* board reads in progress
MaxPlyAll == 2
MaxResignsAll == 1
MaxInFlightAll == 1
MaxReadersAll == 1
\* the earlier revision: calls to Join
MaxJoinsOld == 3

\* -------------------------------------------------------- program constants
\* make(chan Event, 10)
ChanCap == 10
\* time.Minute, in minutes
Minute == 1
\* time.Hour*12, in minutes
TwelveHours == 720
\* time.Sleep(time.Second * 60) of the sweeper, in minutes
SweepPeriod == 1

\* ------------------------------------------------------------- value sets
Usernames == {"alice", "bob"}
\* identities looked up: the two above, one that never joins, and the
\* empty string
Identities == Usernames \cup {"carol", ""}
\* chess.Color
Colors == {"White", "Black"}
\* UCI strings offered to MoveAs: two the engine accepts for White, one it
\* accepts for Black, one it never accepts
Notations == {"e2e4", "d2d4", "e7e5", "zzzz"}

\* the JoinMatch handler goroutines
Streams == {"s1", "s2"}
\* owner of an activation made by a direct caller of the Match API
Api == "api"

\* values of rand.Text()[:6]
Ids == {"id1", "id2"}
\* Match.ID of the first match created (any one value of Ids)
ID == "id1"
\* a map lookup that finds nothing; matches are numbered from 1 in the order
\* of their creation
NoMatch == 0
\* the instants (minutes since the first NewMatch) at which something runs
Instants == {0, 1, 2, 60, 61}

\* nil channel; channels 1 and 2 are the ones made for players[0], players[1]
NilChan == 0

\* Player{} (the zero value)
ZeroPlayer == [Username |-> "", Id |-> 0, Color |-> "NoColor", Events |-> NilChan]

\* player.go NewPlayer; ch is the channel that make(chan Event, 10) returns
NewPlayer(username, id, color, ch) ==
    [Username |-> username, Id |-> id, Color |-> color, Events |-> ch]

\* chess.Color.Other of the rule engine
Other(c) == IF c = "White" THEN "Black" ELSE IF c = "Black" THEN "White" ELSE "NoColor"

\* ------------------------------------------------------------------ events
EventMove(opponentMove) ==
    [Type |-> "move", Move |-> opponentMove, OponentUsername |-> "",
     OpponentBlack |-> FALSE, StartTime |-> -1, EndTime |-> -1]

EventResigned ==
    [Type |-> "resign", Move |-> "", OponentUsername |-> "",
     OpponentBlack |-> FALSE, StartTime |-> -1, EndTime |-> -1]

EventStarted(opponentUsername, opponentBlack, startTime, endTime) ==
    [Type |-> "opponent", Move |-> "", OponentUsername |-> opponentUsername,
     OpponentBlack |-> opponentBlack, StartTime |-> startTime, EndTime |-> endTime]

VARIABLES
    StartTime,   \* Match.StartTime (minutes; creation time is 0)
    EndTime,     \* Match.EndTime
    Chess,       \* Match.Chess: [ply, last, outcome] of the rule engine
    numPlayers,  \* Match.numPlayers
    players,     \* Match.players, indexed 1..2 for players[0], players[1]
    chan,        \* contents of the channels made by NewPlayer, by number
    shutDown,    \* TRUE once Match.ShutDown (the context cancel) was called
    lockHolder,  \* the Join or Resign activation holding m.Lock(), or NoCall
    readers,     \* number of board reads holding m.RLock()
    inflight,    \* bag of MoveAs activations between doMove and their send
    stream,      \* per JoinMatch handler: position, Player, events written
    storage,     \* MatchStorage.storage: id -> number of the match, or NoMatch
    others,      \* ID and EndTime of the matches created after the first
    sweeper,     \* per match, its sweeper goroutine: position, wake-up time
    now,         \* time.Now(), in minutes since the first NewMatch
    sentLog,     \* history: every event ever enqueued, per channel
    hist,        \* history: counters of calls
    last,        \* history: the call that completed last and its result
    request,     \* the PutMove request being served, and the reply to the last
    oldMatch     \* a Match of the earlier revision (match.go), its registry entry
                 \* and its sweeper

vars == <<StartTime, EndTime, Chess, numPlayers, players, chan, shutDown,
          lockHolder, readers, inflight, stream, storage, others, sweeper, now, sentLog,
          hist, last, request, oldMatch>>

\* what no method of Match writes: its times, the registry, the other
\* matches, the sweepers, the clock, the read holds of the board reads, and
\* the request a handler serves
matchVars == <<StartTime, EndTime, storage, others, sweeper, now, readers, request,
               oldMatch>>

\* no activation holds the lock
NoCall == [op |-> "none", player |-> ZeroPlayer, opp |-> NilChan, owner |-> Api, arg |-> ""]

\* result of the call completed last
Result(op, res, player, arg) == [op |-> op, res |-> res, player |-> player, arg |-> arg]

\* ------------------------------------------------------------- rule engine
\* chess.NewGame()
NewGame == [ply |-> 0, last |-> "", outcome |-> "NoOutcome"]

\* Position().Turn(): White moves on even plies
Turn(g) == IF g.ply % 2 = 0 THEN "White" ELSE "Black"

\* UCINotation.Decode + Game.Move accept the move: legality depends on the
\* position only (the side to move), not on the recorded outcome
EngineAccepts(g, moveStr) ==
    IF Turn(g) = "White" THEN moveStr \in {"e2e4", "d2d4"} ELSE moveStr = "e7e5"

\* a Move that forgets the recorded outcome
ApplyMoveClearsOutcome(g, moveStr) ==
    [g EXCEPT !.ply = g.ply + 1, !.last = moveStr, !.outcome = "NoOutcome"]

\* Game.Move applied
ApplyMove(g, moveStr) == [g EXCEPT !.ply = g.ply + 1, !.last = moveStr]

\* Game.Resign(color): no-op when an outcome is recorded or color is NoColor
ChessResign(g, color) ==
    IF g.outcome # "NoOutcome" \/ color = "NoColor" THEN g
    ELSE [g EXCEPT !.outcome = IF color = "White" THEN "BlackWon" ELSE "WhiteWon"]

\* ---------------------------------------------------------------- NewMatch
\* the clamp without its lower bound
ClampDurationNoFloor(duration) ==
    IF duration > TwelveHours THEN TwelveHours ELSE duration

\* duration = min(12h, max(1min, duration))
ClampDuration(duration) ==
    LET lo == IF duration < Minute THEN Minute ELSE duration
    IN  IF lo > TwelveHours THEN TwelveHours ELSE lo

\* requested durations (minutes) offered to NewMatch
RequestedDurations == {60}
\* durations (minutes) offered to NewMatch when its clamp is exercised
DurationsAny == {-60, 0, 1, 59, 720, 721, 100000}
\* values of the "duration" field sent to the create-match request (hours)
HoursSent == {-1, 0, 1, 11, 12, 13, 2562047, 2562048, 5124100}

\* ------------------------------------------- int64, as time.Duration has it
\* An int64 is a sequence of 8 bytes, least significant first, in two's
\* complement.
\* time.Hour: 3 600 000 000 000 ns
HourNs == <<0, 160, 184, 48, 70, 3, 0, 0>>

RECURSIVE MulFrom(_, _, _, _)
\* bytes i..8 of n * x (mod 2^64), 0 <= n < 2^23, with the carry coming in
MulFrom(n, x, i, carry) ==
    IF i > 8 THEN <<>>
    ELSE LET v == n * x[i] + carry IN <<v % 256>> \o MulFrom(n, x, i + 1, v \div 256)

RECURSIVE NegFrom(_, _, _)
\* bytes i..8 of -x: the complement plus one
NegFrom(x, i, carry) ==
    IF i > 8 THEN <<>>
    ELSE LET v == (255 - x[i]) + carry IN <<v % 256>> \o NegFrom(x, i + 1, v \div 256)

Neg64(x) == NegFrom(x, 1, 1)

\* the sign bit
IsNeg64(x) == x[8] >= 128

\* int64(n) * x with Go's wrap-around, for a small integer n
Mul64(n, x) == IF n >= 0 THEN MulFrom(n, x, 1, 0) ELSE Neg64(MulFrom(-n, x, 1, 0))

RECURSIVE DivFrom(_, _, _, _)
\* long division of the unsigned bytes i..1 of x by d < 2^23, rem coming in:
\* the quotient bytes (least significant first) and the remainder
DivFrom(x, d, i, rem) ==
    IF i = 0 THEN [q |-> <<>>, r |-> rem]
    ELSE LET cur == rem * 256 + x[i]
             rest == DivFrom(x, d, i - 1, cur % d)
         IN  [q |-> Append(rest.q, cur \div d), r |-> rest.r]

Div64(x, d) == DivFrom(x, d, 8, 0)

\* the value of an unsigned x below 2^31
ToNat(x) == x[1] + 256 * x[2] + 65536 * x[3] + 16777216 * x[4]

\* a time.Duration in whole minutes (rounded down): x / 60 000 000 000
MinutesOf(x) ==
    LET a == IF IsNeg64(x) THEN Neg64(x) ELSE x
        d1 == Div64(a, 60000)
        d2 == Div64(d1.q, 1000000)
        q == ToNat(d2.q)
    IN  IF ~IsNeg64(x) THEN q
        ELSE IF d1.r = 0 /\ d2.r = 0 THEN 0 - q ELSE 0 - q - 1

\* the sweeper goroutine as NewMatch starts it: asleep for one period
SweeperStarted(t) == [pc |-> "sleep", wake |-> t + SweepPeriod, branch |-> "none"]

NewMatch(duration) ==
    /\ StartTime = 0
    /\ EndTime = 0 + ClampDuration(duration)
    /\ Chess = NewGame
    /\ numPlayers = 0
    /\ players = [i \in 1..2 |-> ZeroPlayer]
    /\ chan = [i \in 1..2 |-> <<>>]
    /\ shutDown = FALSE
    /\ now = 0
    /\ storage = [id \in Ids |-> IF id = ID THEN 1 ELSE NoMatch]
    /\ others = <<>>
    /\ sweeper = <<SweeperStarted(0)>>

\* ------------------------------------- the earlier revision of Match (match.go)
\* NewMatch of match.go: the duration clamped as in game.go, no player, no
\* color, the mutex free, the entry in the registry, the sweeper asleep.
\* calls and last are history: the calls to Join so far, the result of the last.
OldNewMatch(duration) ==
    [StartTime |-> 0, EndTime |-> 0 + ClampDuration(duration),
     numPlayers |-> 0, playerColors |-> <<"NoColor", "NoColor">>,
     mutex |-> "free", waiter |-> 0, stored |-> TRUE, wake |-> 0 + SweepPeriod,
     calls |-> 0, last |-> [id |-> 0, ok |-> FALSE, asColor |-> "NoColor"]]

\* no PutMove request has been received
NoRequest == [pc |-> "idle", id |-> "", username |-> "", move |-> "", match |-> NoMatch,
              res |-> "none"]

\* a JoinMatch handler that has not been entered
StreamIdle == [pc |-> "idle", player |-> ZeroPlayer, fwd |-> <<>>]

Init ==
    /\ \E d \in RequestedDurations : NewMatch(d)
    /\ lockHolder = NoCall
    /\ readers = 0
    /\ inflight = EmptyBag
    /\ stream = [s \in Streams |-> StreamIdle]
    /\ sentLog = [i \in 1..2 |-> <<>>]
    /\ hist = [joinOk |-> 0, joinFull |-> 0, resigns |-> 0, firstReq |-> "NoColor",
               lastMover |-> ZeroPlayer]
    /\ last = Result("none", "none", ZeroPlayer, "")
    /\ request = NoRequest
    /\ \E d \in RequestedDurations : oldMatch = OldNewMatch(d)

\* no activation holds m.Lock(): m.RLock() can be taken
LockFree == lockHolder = NoCall

\* (variant: a writer that does not wait for the readers)
WriterMayEnterAmongReaders(r) == TRUE

\* RWMutex.Lock waits until no reader holds the mutex
WriterMayEnter(r) == r = 0

\* m.Lock() can be taken
CanLock == LockFree /\ WriterMayEnter(readers)

\* the Player values Join has returned so far
Handles == {players[i] : i \in {j \in 1..2 : players[j] # ZeroPlayer}}

\* a call made by owner has returned player: a handler keeps it and streams
Returned(owner, player, ok) ==
    IF owner \in Streams
    THEN stream' = [stream EXCEPT ![owner].pc = IF ok THEN "streaming" ELSE "refused",
                                  ![owner].player = player]
    ELSE UNCHANGED stream

\* ------------------------------------------------------------------- Join
\* (variant: the capacity check off by one)
JoinHasRoomOffByOne(n) == n <= 2

\* if m.GetPlayerCount() < 2
JoinHasRoom(n) == n < 2

\* (variant: the second joiner gets the color it asked for)
SecondColorAsRequested(player1Color, asColor) == asColor

\* color given to the second joiner
SecondColor(player1Color, asColor) == Other(player1Color)

\* Join up to its first channel send: takes the lock, counts the player in,
\* fills the slot.  The first joiner and a refused joiner return at once.
JoinLock(owner, username, asColor) ==
    /\ CanLock
    /\ UNCHANGED <<matchVars, Chess, shutDown, inflight, sentLog>>
    /\ IF JoinHasRoom(numPlayers)
       THEN LET id == numPlayers + 1 IN
            /\ numPlayers' = id
            /\ IF id = 1
               THEN /\ players' = [players EXCEPT ![1] = NewPlayer(username, id, asColor, 1)]
                    /\ chan' = [chan EXCEPT ![1] = <<>>]
                    /\ hist' = [hist EXCEPT !.joinOk = @ + 1, !.firstReq = asColor]
                    /\ last' = Result("join", "ok", players'[1], asColor)
                    /\ Returned(owner, players'[1], TRUE)
                    /\ UNCHANGED lockHolder
               ELSE /\ players' = [players EXCEPT
                          ![2] = NewPlayer(username, id, SecondColor(players[1].Color, asColor), 2)]
                    /\ chan' = [chan EXCEPT ![2] = <<>>]
                    /\ lockHolder' = [op |-> "join_send1", player |-> players'[2],
                                      opp |-> players[1].Events, owner |-> owner,
                                      arg |-> asColor]
                    /\ IF owner \in Streams
                       THEN stream' = [stream EXCEPT ![owner].pc = "joining"]
                       ELSE UNCHANGED stream
                    /\ UNCHANGED <<hist, last>>
       ELSE /\ hist' = [hist EXCEPT !.joinFull = @ + 1]
            /\ last' = Result("join", "full", ZeroPlayer, asColor)
            /\ Returned(owner, ZeroPlayer, FALSE)
            /\ UNCHANGED <<numPlayers, players, chan, lockHolder>>

\* (variant: player1 is told about itself)
StartedForPlayer1Self(player1, player2) ==
    EventStarted(player1.Username, player1.Color = "Black", StartTime, EndTime)

\* the event sent to player1 when player2 joins
StartedForPlayer1(player1, player2) ==
    EventStarted(player2.Username, player2.Color = "Black", StartTime, EndTime)

\* the event sent to player2 when it joins
StartedForPlayer2(player1, player2) ==
    EventStarted(player1.Username, player1.Color = "Black", StartTime, EndTime)

\* player1.Events <- EventStarted(...): blocks while the channel is full
JoinSend1 ==
    /\ lockHolder.op = "join_send1"
    /\ lockHolder.opp # NilChan
    /\ Len(chan[lockHolder.opp]) < ChanCap
    /\ LET e == StartedForPlayer1(players[1], lockHolder.player)
           c == lockHolder.opp IN
       /\ chan' = [chan EXCEPT ![c] = Append(@, e)]
       /\ sentLog' = [sentLog EXCEPT ![c] = Append(@, e)]
    /\ lockHolder' = [lockHolder EXCEPT !.op = "join_send2"]
    /\ UNCHANGED <<matchVars, Chess, numPlayers, players, shutDown, inflight, stream,
                   hist, last>>

\* player2.Events <- EventStarted(...); return player2, true; deferred Unlock
JoinSend2 ==
    /\ lockHolder.op = "join_send2"
    /\ Len(chan[lockHolder.player.Events]) < ChanCap
    /\ LET e == StartedForPlayer2(players[1], lockHolder.player)
           c == lockHolder.player.Events IN
       /\ chan' = [chan EXCEPT ![c] = Append(@, e)]
       /\ sentLog' = [sentLog EXCEPT ![c] = Append(@, e)]
    /\ lockHolder' = NoCall
    /\ hist' = [hist EXCEPT !.joinOk = @ + 1]
    /\ last' = Result("join", "ok", lockHolder.player, lockHolder.arg)
    /\ Returned(lockHolder.owner, lockHolder.player, TRUE)
    /\ UNCHANGED <<matchVars, Chess, numPlayers, players, shutDown, inflight>>

\* ------------------------------------------------- GetPlayerFromUsername
\* first slot whose Username matches, under RLock
LookupPlayer(username) ==
    IF players[1].Username = username THEN players[1]
    ELSE IF players[2].Username = username THEN players[2]
    ELSE ZeroPlayer

\* GetPlayerFromUsername, both results: ok is true as soon as a slot's
\* Username equals the argument, for an empty slot (Username "") too
GetPlayerFromUsername(username) ==
    [player |-> LookupPlayer(username),
     ok |-> players[1].Username = username \/ players[2].Username = username]

\* ----------------------------------------------------------------- MoveAs
\* (variant: doMove without the turn check)
DoMoveOkNoTurnCheck(player, moveStr) ==
    /\ ~(player.Username # players[1].Username /\ player.Username # players[2].Username)
    /\ moveStr \in {"e2e4", "d2d4", "e7e5"}

\* (variant: doMove without the membership check)
DoMoveOkNoMembership(player, moveStr) ==
    /\ ~(Turn(Chess) # player.Color)
    /\ EngineAccepts(Chess, moveStr)

\* doMove's three checks: membership, turn, the engine's verdict
DoMoveOk(player, moveStr) ==
    /\ ~(player.Username # players[1].Username /\ player.Username # players[2].Username)
    /\ ~(Turn(Chess) # player.Color)
    /\ EngineAccepts(Chess, moveStr)

\* doMove, whole (Lock .. deferred Unlock); MoveAs returns false when it fails
DoMoveStep(player, moveStr) ==
    /\ CanLock
    /\ IF DoMoveOk(player, moveStr)
       THEN /\ Chess' = ApplyMove(Chess, moveStr)
            /\ inflight' = inflight (+) SetToBag({[pc |-> "move_read", player |-> player,
                                                    move |-> moveStr, opp |-> NilChan,
                                                    ply |-> Chess'.ply,
                                                    both |-> numPlayers = 2]})
            /\ hist' = [hist EXCEPT !.lastMover = player]
            /\ UNCHANGED last
       ELSE /\ last' = Result("move", "fail", player, moveStr)
            /\ UNCHANGED <<Chess, inflight, hist>>
    /\ UNCHANGED <<numPlayers, players, chan, shutDown, lockHolder, stream, sentLog>>

\* MoveAs up to the return of doMove, called on the Match directly
DoMove(player, moveStr) ==
    /\ DoMoveStep(player, moveStr)
    /\ UNCHANGED matchVars

\* the channel MoveAs picks as oppEvents
OppEvents(player) ==
    IF player.Username = players[1].Username THEN players[2].Events ELSE players[1].Events

\* m.RLock(); pick oppEvents; m.RUnlock()
MoveRead(a) ==
    /\ BagIn(a, inflight)
    /\ a.pc = "move_read"
    /\ LockFree
    /\ inflight' = (inflight (-) SetToBag({a}))
                       (+) SetToBag({[a EXCEPT !.pc = "move_send", !.opp = OppEvents(a.player)]})
    /\ UNCHANGED <<matchVars, Chess, numPlayers, players, chan, shutDown, lockHolder, stream,
                   sentLog, hist, last>>

\* (variant: a full queue drops its oldest event to make room)
TrySendDropOldest(q, e) == IF Len(q) < ChanCap THEN Append(q, e) ELSE Append(Tail(q), e)

\* select { case ch <- e: default: }: the queue after a non-blocking send
TrySend(q, e) == IF Len(q) < ChanCap THEN Append(q, e) ELSE q

\* if oppEvents != nil { non-blocking send }; return true
MoveSend(a) ==
    /\ BagIn(a, inflight)
    /\ a.pc = "move_send"
    /\ LET c == a.opp
           e == EventMove(a.move) IN
       IF c # NilChan
       THEN /\ chan' = [chan EXCEPT ![c] = TrySend(@, e)]
            /\ sentLog' = [sentLog EXCEPT ![c] = IF Len(chan[c]) < ChanCap
                                                 THEN Append(@, e) ELSE @]
            /\ last' = Result("move", IF Len(chan[c]) < ChanCap THEN "ok" ELSE "ok_dropped",
                              a.player, a.move)
       ELSE /\ last' = Result("move", "ok_nochan", a.player, a.move)
            /\ UNCHANGED <<chan, sentLog>>
    /\ inflight' = inflight (-) SetToBag({a})
    /\ UNCHANGED <<matchVars, Chess, numPlayers, players, shutDown, lockHolder, stream, hist>>

\* ----------------------------------------------------------------- Resign
\* the Player whose channel Resign sends to
ResignOpponent(player) == IF player.Id = 1 THEN players[2] ELSE players[1]

\* m.Lock(); m.Chess.Resign(player.Color); pick opponent
ResignLock(owner, player) ==
    /\ CanLock
    /\ lockHolder' = [op |-> "resign_send", player |-> player,
                      opp |-> ResignOpponent(player).Events, owner |-> owner, arg |-> ""]
    /\ Chess' = ChessResign(Chess, player.Color)
    /\ hist' = [hist EXCEPT !.resigns = @ + 1]
    /\ IF owner \in Streams
       THEN stream' = [stream EXCEPT ![owner].pc = "resigning"]
       ELSE UNCHANGED stream
    /\ UNCHANGED <<matchVars, numPlayers, players, chan, shutDown, inflight, sentLog, last>>

\* opponent.Events <- EventResigned() (blocking); deferred ShutDown, Unlock
ResignSend ==
    /\ lockHolder.op = "resign_send"
    /\ lockHolder.opp # NilChan
    /\ Len(chan[lockHolder.opp]) < ChanCap
    /\ chan' = [chan EXCEPT ![lockHolder.opp] = Append(@, EventResigned)]
    /\ sentLog' = [sentLog EXCEPT ![lockHolder.opp] = Append(@, EventResigned)]
    /\ shutDown' = TRUE
    /\ lockHolder' = NoCall
    /\ last' = Result("resign", "done", lockHolder.player, "")
    /\ IF lockHolder.owner \in Streams
       THEN stream' = [stream EXCEPT ![lockHolder.owner].pc = "done"]
       ELSE UNCHANGED stream
    /\ UNCHANGED <<matchVars, Chess, numPlayers, players, inflight, hist>>

\* ---------------------------------------------- the Match API, called freely
\* the calls made so far stay within the given caps
JoinsBelow(n) == numPlayers + hist.joinFull < n
PlyBelow(n) == Chess.ply < n
ResignsBelow(n) == hist.resigns < n
InFlightBelow(n) == BagCardinality(inflight) < n

Next ==
    \/ JoinsBelow(MaxJoins) /\ \E u \in Usernames, c \in Colors : JoinLock(Api, u, c)
    \/ JoinSend1
    \/ JoinSend2
    \/ PlyBelow(MaxPly) /\ InFlightBelow(MaxInFlight)
          /\ \E p \in Handles, n \in Notations : DoMove(p, n)
    \/ \E a \in BagToSet(inflight) : MoveRead(a)
    \/ \E a \in BagToSet(inflight) : MoveSend(a)
    \/ ResignsBelow(MaxResigns) /\ \E p \in Handles : ResignLock(Api, p)
    \/ ResignSend

Spec == Init /\ [][Next]_vars

\* ------------------------------------- one caller, one call after another
\* no call is in progress
Quiet == LockFree /\ inflight = EmptyBag

\* UCI strings the caller offers at a ply: White's first move is e2e4
ScenarioMoves(ply) == IF ply = 0 THEN {"e2e4", "zzzz"} ELSE {"d2d4", "e7e5", "zzzz"}

\* alice joins as White, then bob on any side; once both are in, either
\* submits moves and either resigns, each call made when the one before has
\* returned; nothing is consumed from the channels
NextScenario ==
    \/ Quiet /\ numPlayers = 0 /\ JoinLock(Api, "alice", "White")
    \/ Quiet /\ numPlayers = 1 /\ \E c \in Colors : JoinLock(Api, "bob", c)
    \/ JoinSend1
    \/ JoinSend2
    \/ Quiet /\ numPlayers = 2 /\ PlyBelow(MaxPly)
          /\ \E p \in Handles, n \in ScenarioMoves(Chess.ply) : DoMove(p, n)
    \/ \E a \in BagToSet(inflight) : MoveRead(a)
    \/ \E a \in BagToSet(inflight) : MoveSend(a)
    \/ Quiet /\ numPlayers = 2 /\ ResignsBelow(MaxResignsLong)
          /\ \E p \in Handles : ResignLock(Api, p)
    \/ ResignSend

SpecScenario == Init /\ [][NextScenario]_vars

\* ------------------------------ concurrent MoveAs and Resign, told apart
\* the UCI string offered at each ply: alice (White) plays e2e4 then d2d4, bob
\* e7e5, so that a move event tells the ply at which its move was applied
OrderMoves(ply) == IF ply = 0 THEN {"e2e4"} ELSE IF ply = 1 THEN {"e7e5"} ELSE {"d2d4"}

\* the ply reached by the move an event carries, under OrderMoves
PlyOfMove(moveStr) == IF moveStr = "e2e4" THEN 1 ELSE IF moveStr = "e7e5" THEN 2 ELSE 3

\* alice and bob have joined; MoveAs calls run concurrently, and while none
\* has resigned; then one participant resigns
NextOrder ==
    \/ numPlayers = 0 /\ JoinLock(Api, "alice", "White")
    \/ numPlayers = 1 /\ JoinLock(Api, "bob", "Black")
    \/ JoinSend1
    \/ JoinSend2
    \/ numPlayers = 2 /\ hist.resigns = 0
          /\ PlyBelow(MaxPlyOrder) /\ InFlightBelow(MaxInFlightOrder)
          /\ \E p \in Handles, n \in OrderMoves(Chess.ply) : DoMove(p, n)
    \/ \E a \in BagToSet(inflight) : MoveRead(a)
    \/ \E a \in BagToSet(inflight) : MoveSend(a)
    \/ numPlayers = 2 /\ ResignsBelow(MaxResignsOrder)
          /\ \E p \in Handles : ResignLock(Api, p)
    \/ ResignSend

SpecOrder == Init /\ [][NextOrder]_vars

\* ------------------------------------ long runs of two callers, no consumer
\* alice joins first, bob second; each plays the engine's move for its side
NotationsLong == {"e2e4", "e7e5"}

NextOverflow ==
    \/ numPlayers = 0 /\ \E c \in Colors : JoinLock(Api, "alice", c)
    \/ numPlayers = 1 /\ JoinLock(Api, "bob", "White")
    \/ JoinSend1
    \/ JoinSend2
    \/ PlyBelow(MaxPlyLong) /\ InFlightBelow(MaxInFlightLong)
          /\ \E p \in Handles, n \in NotationsLong : DoMove(p, n)
    \/ \E a \in BagToSet(inflight) : MoveRead(a)
    \/ \E a \in BagToSet(inflight) : MoveSend(a)
    \/ ResignsBelow(MaxResignsLong) /\ \E p \in Handles : ResignLock(Api, p)
    \/ ResignSend

SpecOverflow == Init /\ [][NextOverflow]_vars

\* --------------------------------------- callers that never joined the match
\* Player values that no Join of this match has returned: Player{}, and the
\* Players that Joins of another match returned to carol (their Events channel
\* belongs to that match; MoveAs and Resign never read the field)
Outsiders ==
    {ZeroPlayer, NewPlayer("carol", 1, "White", NilChan), NewPlayer("carol", 2, "Black", NilChan)}

NextOutsider ==
    \/ JoinsBelow(MaxJoinsOut) /\ \E u \in Usernames, c \in Colors : JoinLock(Api, u, c)
    \/ JoinSend1
    \/ JoinSend2
    \/ PlyBelow(MaxPlyOut) /\ InFlightBelow(MaxInFlightOut)
          /\ \E p \in Handles \cup Outsiders, n \in Notations : DoMove(p, n)
    \/ \E a \in BagToSet(inflight) : MoveRead(a)
    \/ \E a \in BagToSet(inflight) : MoveSend(a)
    \/ ResignsBelow(MaxResignsOut) /\ \E p \in Handles \cup Outsiders : ResignLock(Api, p)
    \/ ResignSend

SpecOutsider == Init /\ [][NextOutsider]_vars

\* --------------------------------- callers that build their own Player value
\* Player values a caller can pass to MoveAs that carry the username of an
\* identity and any side: Player is a plain struct of exported fields
Forged == {NewPlayer(u, i, c, NilChan) : u \in Usernames, i \in 1..2, c \in Colors}

NextForged ==
    \/ JoinsBelow(MaxJoinsOut) /\ \E u \in Usernames, c \in Colors : JoinLock(Api, u, c)
    \/ JoinSend1
    \/ JoinSend2
    \/ PlyBelow(MaxPlyOut) /\ InFlightBelow(MaxInFlightOut)
          /\ \E p \in Handles \cup Forged, n \in Notations : DoMove(p, n)
    \/ \E a \in BagToSet(inflight) : MoveRead(a)
    \/ \E a \in BagToSet(inflight) : MoveSend(a)

SpecForged == Init /\ [][NextForged]_vars

\* ------------------------------------------- JoinMatch / PutMove handlers
\* (variant: a handler that returns without the deferred Resign)
AfterStreamEndsNoResign(s) == "done"

\* defer match.Resign(player): where a handler goes when its loop returns
AfterStreamEnds(s) == "cleanup"

\* player, ok := match.Join(username, asColor)
StreamJoin(s, username, asColor) ==
    /\ stream[s].pc = "idle"
    /\ JoinLock(s, username, asColor)

\* (variant: a receive that takes the newest event of the channel)
ReceiveNewest(q) == [e |-> q[Len(q)], rest |-> SubSeq(q, 1, Len(q) - 1)]

\* e := <-player.Events on a non-empty channel: the oldest event, and what
\* the channel keeps
Receive(q) == [e |-> Head(q), rest |-> Tail(q)]

\* (variant: a loop that goes on after writing a resign event)
KeepsStreamingPastResign(e, writeOk) == writeOk

\* the loop goes round after a write that succeeded, unless the event
\* written was a resign event
KeepsStreaming(e, writeOk) == writeOk /\ e.Type # "resign"

\* case e := <-player.Events: write it; return after a failed write or after
\* writing a resign event
StreamRecv(s, writeOk) ==
    /\ stream[s].pc = "streaming"
    /\ LET c == stream[s].player.Events IN
       /\ c # NilChan
       /\ chan[c] # <<>>
       /\ chan' = [chan EXCEPT ![c] = Receive(@).rest]
       /\ stream' = [stream EXCEPT
             ![s].fwd = IF writeOk THEN Append(@, Receive(chan[c]).e) ELSE @,
             ![s].pc = IF KeepsStreaming(Receive(chan[c]).e, writeOk)
                       THEN "streaming" ELSE AfterStreamEnds(s)]
    /\ UNCHANGED <<matchVars, Chess, numPlayers, players, shutDown, lockHolder, inflight,
                   sentLog, hist, last>>

\* case <-ctx.Done(): the client went away
StreamCancel(s) ==
    /\ stream[s].pc = "streaming"
    /\ stream' = [stream EXCEPT ![s].pc = AfterStreamEnds(s)]
    /\ UNCHANGED <<matchVars, Chess, numPlayers, players, chan, shutDown, lockHolder,
                   inflight, sentLog, hist, last>>

\* case <-ticker.C: the keep-alive write fails (a successful one changes nothing)
StreamKeepAliveFail(s) ==
    /\ stream[s].pc = "streaming"
    /\ stream' = [stream EXCEPT ![s].pc = AfterStreamEnds(s)]
    /\ UNCHANGED <<matchVars, Chess, numPlayers, players, chan, shutDown, lockHolder,
                   inflight, sentLog, hist, last>>

\* the deferred match.Resign(player) takes the lock
StreamResign(s) ==
    /\ stream[s].pc = "cleanup"
    /\ ResignLock(s, stream[s].player)

\* PutMove: GetPlayerFromUsername, then MoveAs with the Player found.  The
\* slots are written once, so the Player found is the one a lookup made at
\* the moment of doMove finds.
PutMove(username, moveStr) ==
    /\ LookupPlayer(username) # ZeroPlayer
    /\ DoMove(LookupPlayer(username), moveStr)

\* the authenticated username of the request each handler serves
StreamUser(s) == IF s = "s1" THEN "alice" ELSE "bob"

NextStream ==
    \/ \E s \in Streams, c \in Colors : StreamJoin(s, StreamUser(s), c)
    \/ JoinSend1
    \/ JoinSend2
    \/ PlyBelow(MaxPlyStream) /\ InFlightBelow(MaxInFlightStream)
          /\ \E u \in Usernames, n \in NotationsLong : PutMove(u, n)
    \/ \E a \in BagToSet(inflight) : MoveRead(a)
    \/ \E a \in BagToSet(inflight) : MoveSend(a)
    \/ \E s \in Streams, ok \in BOOLEAN : StreamRecv(s, ok)
    \/ \E s \in Streams : StreamCancel(s)
    \/ \E s \in Streams : StreamKeepAliveFail(s)
    \/ \E s \in Streams : StreamResign(s)
    \/ ResignSend

SpecStream == Init /\ [][NextStream]_vars

\* Scheduling: a goroutine that can take its next step takes it (WF); a
\* goroutine waiting for m.Lock() gets it once it is free often enough (SF:
\* sync.Mutex hands the lock to a starving waiter).  Clients are not obliged
\* to join, move or disconnect.
Fairness ==
    /\ WF_vars(JoinSend1)
    /\ WF_vars(JoinSend2)
    /\ WF_vars(ResignSend)
    /\ WF_vars(\E a \in BagToSet(inflight) : MoveRead(a))
    /\ WF_vars(\E a \in BagToSet(inflight) : MoveSend(a))
    /\ \A s \in Streams : WF_vars(\E ok \in BOOLEAN : StreamRecv(s, ok))
    /\ \A s \in Streams : SF_vars(StreamResign(s))

SpecLive == SpecStream /\ Fairness

\* ------------------------------------------------- MatchStorage, the sweepers
\* the state of the first match and of the calls made on it
sessionVars == <<oldMatch, request, StartTime, EndTime, Chess, numPlayers, players, chan, shutDown,
                 lockHolder, readers, inflight, stream, sentLog, hist, last>>

\* fields of match number k.  No request joins or resigns a match created
\* after the first: its numPlayers stays 0 and its context is never cancelled.
IDOf(k) == IF k = 1 THEN ID ELSE others[k - 1].ID
EndTimeOf(k) == IF k = 1 THEN EndTime ELSE others[k - 1].EndTime
NumPlayersOf(k) == IF k = 1 THEN numPlayers ELSE 0
DoneOf(k) == IF k = 1 THEN shutDown ELSE FALSE

\* (variant: a lookup that still finds the first match once it is deleted)
GetMatchKeepsFirst(id) ==
    IF id = ID THEN [match |-> 1, ok |-> TRUE]
    ELSE [match |-> storage[id], ok |-> storage[id] # NoMatch]

\* GetMatch: s.mu.RLock(); match, ok = s.storage[id]; s.mu.RUnlock()
GetMatch(id) == [match |-> storage[id], ok |-> storage[id] # NoMatch]

\* what NewMatch does to the registry: the id comes from rand.Text()[:6], the
\* entry is written under s.mu whatever the map holds, the sweeper is
\* started.  Requested and Hours are history: the argument of NewMatch, and
\* the hours of the create-match request that called it (0: called directly)
Created(id, duration, hours) ==
    /\ others' = Append(others, [ID |-> id, StartTime |-> now,
                                  EndTime |-> now + ClampDuration(duration),
                                  Requested |-> duration, Hours |-> hours])
    /\ storage' = [storage EXCEPT ![id] = Len(others) + 2]
    /\ sweeper' = Append(sweeper, SweeperStarted(now))

\* NewMatch called again
NewMatchOther(id, duration) ==
    /\ Created(id, duration, 0)
    /\ UNCHANGED <<sessionVars, now>>

\* time.Duration(req.Duration) * time.Hour
RequestDuration(hours) == Mul64(hours, HourNs)

\* CreateMatch, for a body that binds to an integer: 403 without a username,
\* 400 when req.Duration == 0, else NewMatch with the hours turned into a
\* time.Duration
CreateMatch(username, hours, id) ==
    /\ IF username = ""
       THEN /\ last' = Result("create", "forbidden", ZeroPlayer, "")
            /\ UNCHANGED <<others, storage, sweeper>>
       ELSE IF hours = 0
       THEN /\ last' = Result("create", "rejected", ZeroPlayer, "")
            /\ UNCHANGED <<others, storage, sweeper>>
       ELSE /\ Created(id, MinutesOf(RequestDuration(hours)), hours)
            /\ last' = Result("create", "ok", ZeroPlayer, "")
    /\ UNCHANGED <<StartTime, EndTime, Chess, numPlayers, players, chan, shutDown,
                   lockHolder, readers, inflight, stream, sentLog, hist, now, request,
                   oldMatch>>

\* time passes
Advance(t) ==
    /\ t > now
    /\ now' = t
    /\ UNCHANGED <<sessionVars, storage, others, sweeper>>

\* (variant: a sweeper that does not look at the deadline)
SweepBranchNoDeadline(done, n, t, endTime) ==
    IF done THEN "ctx" ELSE IF n = 0 THEN "default" ELSE "none"

\* (variant: a sweeper that does not look at the context)
SweepBranchNoCancel(done, n, t, endTime) ==
    IF n = 0 \/ t > endTime THEN "default" ELSE "none"

\* the branch one pass of the sweeper's select takes to delete the entry:
\* case <-ctx.Done(), or default with
\* numPlayers.Load() == 0 || time.Since(match.EndTime) > 0; "none" when the
\* loop goes round
SweepBranch(done, n, t, endTime) ==
    IF done THEN "ctx" ELSE IF n = 0 \/ t > endTime THEN "default" ELSE "none"

\* a sweeper inside one of the two branches, about to delete ("delete"), or
\* returned from it ("stopped"); it sleeps no more
SweeperAt(pc, branch) == [pc |-> pc, wake |-> 0, branch |-> branch]

\* the activation holding the lock of match number k
HolderOf(k) == IF k = 1 THEN lockHolder ELSE NoCall

\* (variant: a sweeper that reads the count under the session's lock)
LoadWaitsForLock(holder) == holder = NoCall

\* match.numPlayers.Load(): an atomic load, it takes no lock and waits for
\* none, whoever holds the session's lock
LoadReady(holder) == TRUE

\* time.Sleep returns and the select runs: the sweeper goes on to delete the
\* entry, or sleeps another period
SweepTick(k) ==
    /\ sweeper[k].pc = "sleep"
    /\ now >= sweeper[k].wake
    /\ LoadReady(HolderOf(k))
    /\ LET b == SweepBranch(DoneOf(k), NumPlayersOf(k), now, EndTimeOf(k)) IN
       sweeper' = [sweeper EXCEPT ![k] =
          IF b = "none" THEN SweeperStarted(now) ELSE SweeperAt("delete", b)]
    /\ UNCHANGED <<sessionVars, storage, others, now>>

\* s.mu.Lock(); delete(s.storage, match.ID); s.mu.Unlock(); return
SweepDelete(k) ==
    /\ sweeper[k].pc = "delete"
    /\ storage' = [storage EXCEPT ![IDOf(k)] = NoMatch]
    /\ sweeper' = [sweeper EXCEPT ![k] = SweeperAt("stopped", @.branch)]
    /\ UNCHANGED <<sessionVars, others, now>>

\* the matches created so far stay within the given cap
OthersBelow(n) == Len(others) < n

\* the registry with the first match joined by alice, then bob
NextRegistry ==
    \/ numPlayers = 0 /\ \E c \in Colors : JoinLock(Api, "alice", c)
    \/ numPlayers = 1 /\ JoinLock(Api, "bob", "White")
    \/ JoinSend1
    \/ JoinSend2
    \/ OthersBelow(MaxOthers)
          /\ \E id \in Ids, d \in RequestedDurations : NewMatchOther(id, d)
    \/ \E t \in Instants : Advance(t)
    \/ \E k \in 1..Len(sweeper) : SweepTick(k)
    \/ \E k \in 1..Len(sweeper) : SweepDelete(k)

SpecRegistry == Init /\ [][NextRegistry]_vars

\* matches created with any duration, directly and by the create-match
\* request, and their sweepers
NextCreate ==
    \/ OthersBelow(MaxOthers)
          /\ \E id \in Ids, d \in DurationsAny : NewMatchOther(id, d)
    \/ OthersBelow(MaxOthers)
          /\ \E u \in {"alice", ""}, id \in Ids, h \in HoursSent : CreateMatch(u, h, id)
    \/ \E t \in Instants : Advance(t)
    \/ \E k \in 1..Len(sweeper) : SweepTick(k)
    \/ \E k \in 1..Len(sweeper) : SweepDelete(k)

SpecCreate == Init /\ [][NextCreate]_vars

\* the first match, its handlers and its sweeper
NextSweep ==
    \/ \E s \in Streams, c \in Colors : StreamJoin(s, StreamUser(s), c)
    \/ JoinSend1
    \/ JoinSend2
    \/ \E s \in Streams, ok \in BOOLEAN : StreamRecv(s, ok)
    \/ \E s \in Streams : StreamCancel(s)
    \/ \E s \in Streams : StreamKeepAliveFail(s)
    \/ \E s \in Streams : StreamResign(s)
    \/ ResignSend
    \/ \E t \in Instants : Advance(t)
    \/ SweepTick(1)
    \/ SweepDelete(1)

SpecSweep == Init /\ [][NextSweep]_vars

\* a sweeper started now can still wake up before the clock of the model stops
CanStillWake == \E t \in Instants : t >= now + SweepPeriod

\* matches are created and joined while time passes and the sweepers run
NextSweepLive ==
    \/ numPlayers = 0 /\ \E c \in Colors : JoinLock(Api, "alice", c)
    \/ numPlayers = 1 /\ JoinLock(Api, "bob", "White")
    \/ JoinSend1
    \/ JoinSend2
    \/ OthersBelow(MaxOthers) /\ CanStillWake
          /\ \E id \in Ids, d \in RequestedDurations : NewMatchOther(id, d)
    \/ \E t \in Instants : Advance(t)
    \/ \E k \in 1..Len(sweeper) : SweepTick(k)
    \/ \E k \in 1..Len(sweeper) : SweepDelete(k)

\* time advances, and every sweeper goroutine is scheduled: its Sleep returns
\* once the period is over, and the registry lock, held for single map
\* operations only, is granted to it.  Clients are not obliged to create or
\* join matches.
FairnessSweep ==
    /\ WF_vars(\E t \in Instants : Advance(t))
    /\ \A k \in 1..(MaxOthers + 1) : WF_vars(k <= Len(sweeper) /\ SweepTick(k))
    /\ \A k \in 1..(MaxOthers + 1) : WF_vars(k <= Len(sweeper) /\ SweepDelete(k))

SpecSweepLive == Init /\ [][NextSweepLive]_vars /\ FairnessSweep

\* ------------------------------------------------------- PutMove, stepwise
\* everything but the request
allButRequest == <<StartTime, EndTime, Chess, numPlayers, players, chan, shutDown,
                   lockHolder, readers, inflight, stream, storage, others, sweeper, now,
                   sentLog, hist, last, oldMatch>>

\* the handler has answered
Reply(username, id, moveStr, k, res) ==
    [pc |-> "idle", id |-> id, username |-> username, move |-> moveStr, match |-> k,
     res |-> res]

\* GetPlayerFromUsername on match k: the slots of a match nobody joined are
\* Player{}
PlayerOf(k, username) ==
    IF k = 1 THEN GetPlayerFromUsername(username)
    ELSE [player |-> ZeroPlayer, ok |-> username = ""]

\* PutMove up to GetMatch, for a body that binds: 403 without a username,
\* 404 when the id is not in the registry, else it goes on with the Match
PutMoveGetMatch(username, id, moveStr) ==
    /\ request.pc = "idle"
    /\ request' = IF username = "" THEN Reply(username, id, moveStr, NoMatch, "forbidden")
                  ELSE IF ~GetMatch(id).ok
                       THEN Reply(username, id, moveStr, NoMatch, "not_found")
                  ELSE [pc |-> "found", id |-> id, username |-> username,
                        move |-> moveStr, match |-> GetMatch(id).match, res |-> "none"]
    /\ UNCHANGED allButRequest

\* GetPlayerFromUsername (under RLock) finds nobody: 404 "Player not in-game"
PutMoveNotInGame ==
    /\ request.pc = "found"
    /\ HolderOf(request.match) = NoCall
    /\ ~PlayerOf(request.match, request.username).ok
    /\ request' = [request EXCEPT !.pc = "idle", !.res = "not_participant"]
    /\ UNCHANGED allButRequest

\* the reply after MoveAs: 400 "Invalid move" or 200
MoveAsReply(ok) == IF ok THEN "ok" ELSE "invalid"

\* GetPlayerFromUsername finds a Player, then MoveAs with it up to the return
\* of doMove, which decides the reply.  The slots are written once, so the
\* Player found is the one a lookup made at the moment of doMove finds.
PutMoveMoveAs ==
    /\ request.pc = "found"
    /\ request.match = 1
    /\ PlayerOf(1, request.username).ok
    /\ LET plr == PlayerOf(1, request.username).player IN
       /\ DoMoveStep(plr, request.move)
       /\ request' = [request EXCEPT !.pc = "idle",
                                     !.res = MoveAsReply(DoMoveOk(plr, request.move))]
    /\ UNCHANGED <<StartTime, EndTime, storage, others, sweeper, now, readers, oldMatch>>

\* UCI strings sent in move requests: e7e5 is refused by the engine when
\* White is to move, e2e4 when Black is
NotationsReq == {"e2e4", "e7e5"}
\* instants the clock is advanced to: the sweeper's first wake-up, and past
\* the deadline of the first match
InstantsReq == {1, 61}

\* move requests served one at a time while identities join, another match
\* is created and the first is swept
NextMoveReq ==
    \/ JoinsBelow(MaxJoinsReq) /\ \E u \in Usernames, c \in Colors : JoinLock(Api, u, c)
    \/ JoinSend1
    \/ JoinSend2
    \/ \E u \in Identities, id \in Ids, n \in NotationsReq : PutMoveGetMatch(u, id, n)
    \/ PutMoveNotInGame
    \/ PlyBelow(MaxPlyReq) /\ InFlightBelow(MaxInFlightReq) /\ PutMoveMoveAs
    \/ \E a \in BagToSet(inflight) : MoveRead(a)
    \/ \E a \in BagToSet(inflight) : MoveSend(a)
    \/ OthersBelow(MaxOthers)
          /\ \E id \in Ids, d \in RequestedDurations : NewMatchOther(id, d)
    \/ \E t \in InstantsReq : Advance(t)
    \/ SweepTick(1)
    \/ SweepDelete(1)

SpecMoveReq == Init /\ [][NextMoveReq]_vars

\* the first match held by its handlers while its sweeper runs: the JoinMatch
\* handlers join, stream and resign, move requests are served
NextHeld ==
    \/ \E s \in Streams, c \in Colors : StreamJoin(s, StreamUser(s), c)
    \/ JoinSend1
    \/ JoinSend2
    \/ \E s \in Streams : StreamRecv(s, TRUE)
    \/ \E s \in Streams : StreamCancel(s)
    \/ \E s \in Streams : StreamResign(s)
    \/ ResignSend
    \/ \E u \in Usernames : PutMoveGetMatch(u, ID, "e2e4")
    \/ PutMoveNotInGame
    \/ PlyBelow(MaxPlyStream) /\ InFlightBelow(MaxInFlightStream) /\ PutMoveMoveAs
    \/ \E a \in BagToSet(inflight) : MoveRead(a)
    \/ \E a \in BagToSet(inflight) : MoveSend(a)
    \/ \E t \in InstantsReq : Advance(t)
    \/ SweepTick(1)
    \/ SweepDelete(1)

SpecHeld == Init /\ [][NextHeld]_vars

\* --------------------------- the earlier revision of Match, its operations
\* everything but the earlier Match and the clock
allButOld == <<StartTime, EndTime, Chess, numPlayers, players, chan, shutDown,
               lockHolder, readers, inflight, stream, storage, others, sweeper,
               sentLog, hist, last, request>>

\* if m.GetPlayerCount() > 2
OldJoinAdmits(n) == n > 2

\* Join of match.go, whole (Lock .. deferred Unlock)
OldJoin(asColor) ==
    /\ oldMatch.mutex = "free"
    /\ oldMatch' =
          IF OldJoinAdmits(oldMatch.numPlayers)
          THEN LET id == oldMatch.numPlayers + 1 IN
               [oldMatch EXCEPT !.numPlayers = id,
                                !.playerColors = IF id = 1 THEN <<asColor, Other(asColor)>>
                                                 ELSE @,
                                !.calls = @ + 1,
                                !.last = [id |-> id, ok |-> TRUE, asColor |-> asColor]]
          ELSE [oldMatch EXCEPT !.calls = @ + 1,
                                !.last = [id |-> -1, ok |-> FALSE, asColor |-> asColor]]
    /\ UNCHANGED <<allButOld, now>>

\* MoveAs and Resign of match.go take m.Lock() and then call GetColor, which
\* takes m.Lock() again: sync.Mutex is not reentrant, so the call blocks there
\* for ever with the mutex held
OldMoveAs(id) ==
    /\ oldMatch.mutex = "free"
    /\ oldMatch' = [oldMatch EXCEPT !.mutex = "MoveAs", !.waiter = id]
    /\ UNCHANGED <<allButOld, now>>

OldResign(id) ==
    /\ oldMatch.mutex = "free"
    /\ oldMatch' = [oldMatch EXCEPT !.mutex = "Resign", !.waiter = id]
    /\ UNCHANGED <<allButOld, now>>

\* one round of the sweeper of match.go: Sleep returns, the entry is deleted
\* when numPlayers is 0, and the loop goes round; it never returns
OldSweepTick ==
    /\ now >= oldMatch.wake
    /\ oldMatch' = [oldMatch EXCEPT
                       !.stored = IF oldMatch.numPlayers = 0 THEN FALSE ELSE @,
                       !.wake = now + SweepPeriod]
    /\ UNCHANGED <<allButOld, now>>

\* the calls to Join so far stay within the given cap
OldJoinsBelow(n) == oldMatch.calls < n

NextOld ==
    \/ OldJoinsBelow(MaxJoinsOld) /\ \E c \in Colors : OldJoin(c)
    \/ \E id \in 1..2 : OldMoveAs(id)
    \/ \E id \in 1..2 : OldResign(id)
    \/ \E t \in Instants : Advance(t)
    \/ OldSweepTick

SpecOld == Init /\ [][NextOld]_vars

\* ------------------------------------------- GetBoardFEN / GetBoardImage
\* Match.RLock(): a board read enters
BoardRLock ==
    /\ LockFree
    /\ readers' = readers + 1
    /\ UNCHANGED <<StartTime, EndTime, Chess, numPlayers, players, chan, shutDown, lockHolder,
                   inflight, stream, storage, others, sweeper, now, sentLog, hist, last,
                   request, oldMatch>>

\* Match.Chess.Position() read and written to the response; deferred RUnlock
BoardRUnlock ==
    /\ readers > 0
    /\ readers' = readers - 1
    /\ UNCHANGED <<StartTime, EndTime, Chess, numPlayers, players, chan, shutDown, lockHolder,
                   inflight, stream, storage, others, sweeper, now, sentLog, hist, last,
                   request, oldMatch>>

\* the board reads in progress stay within the given cap
ReadersBelow(n) == readers < n

\* every operation on the first match side by side: alice and bob join, move
\* requests are served, participants resign, boards are read, the sweeper
\* runs
NextAll ==
    \/ numPlayers = 0 /\ JoinLock(Api, "alice", "White")
    \/ numPlayers = 1 /\ JoinLock(Api, "bob", "Black")
    \/ JoinSend1
    \/ JoinSend2
    \/ \E u \in Usernames \cup {"carol"}, n \in NotationsReq : PutMoveGetMatch(u, ID, n)
    \/ PutMoveNotInGame
    \/ PlyBelow(MaxPlyAll) /\ InFlightBelow(MaxInFlightAll) /\ PutMoveMoveAs
    \/ \E a \in BagToSet(inflight) : MoveRead(a)
    \/ \E a \in BagToSet(inflight) : MoveSend(a)
    \/ numPlayers = 2 /\ ResignsBelow(MaxResignsAll)
          /\ \E p \in Handles : ResignLock(Api, p)
    \/ ResignSend
    \/ ReadersBelow(MaxReadersAll) /\ BoardRLock
    \/ BoardRUnlock
    \/ \E t \in InstantsReq : Advance(t)
    \/ SweepTick(1)
    \/ SweepDelete(1)

SpecAll == Init /\ [][NextAll]_vars

\* alice and bob join, move and resign while boards are read
NextBoard ==
    \/ numPlayers = 0 /\ \E c \in Colors : JoinLock(Api, "alice", c)
    \/ numPlayers = 1 /\ JoinLock(Api, "bob", "White")
    \/ JoinSend1
    \/ JoinSend2
    \/ PlyBelow(MaxPlyBoard) /\ InFlightBelow(MaxInFlightBoard)
          /\ \E p \in Handles, n \in NotationsLong : DoMove(p, n)
    \/ \E a \in BagToSet(inflight) : MoveRead(a)
    \/ \E a \in BagToSet(inflight) : MoveSend(a)
    \/ ResignsBelow(MaxResignsBoard) /\ \E p \in Handles : ResignLock(Api, p)
    \/ ResignSend
    \/ ReadersBelow(MaxReaders) /\ BoardRLock
    \/ BoardRUnlock

SpecBoard == Init /\ [][NextBoard]_vars

\* ================================================================ claims
\* no Join holds the lock
NoJoinInProgress == lockHolder.op \notin {"join_send1", "join_send2"}

\* the events of one type in a history
OfType(log, type) == SelectSeq(log, LAMBDA e : e.Type = type)

\* C1: however N > 2 Join calls on one session interleave, exactly 2 return
\* ok=true and N-2 return ok=false, and numPlayers never exceeds 2.
C1_TwoJoinsSucceed ==
    /\ numPlayers <= 2
    /\ hist.joinOk <= 2
    /\ (NoJoinInProgress /\ hist.joinOk + hist.joinFull >= 2) => hist.joinOk = 2
    /\ NoJoinInProgress => hist.joinOk = Cardinality({i \in 1..2 : players[i] # ZeroPlayer})

\* three Join calls have returned, the third refused
C1_Witness ==
    /\ NoJoinInProgress
    /\ hist.joinOk = 2
    /\ hist.joinFull = 1
    /\ last = Result("join", "full", ZeroPlayer, last.arg)

\* C2: the first successful Join stores the requested side, the second is
\* given the opposite side whatever it requested, so two occupied slots hold
\* different sides.
C2_SidesComplementary ==
    /\ players[1] # ZeroPlayer => players[1].Color = hist.firstReq
    /\ players[2] # ZeroPlayer =>
          /\ players[2].Color = Other(players[1].Color)
          /\ players[2].Color # players[1].Color
          /\ players[2].Color \in Colors

\* the second joiner asked for the side the first one holds and got the other
C2_Witness ==
    /\ last.op = "join" /\ last.res = "ok" /\ last.player.Id = 2
    /\ last.arg = players[1].Color
    /\ last.player = players[2]
    /\ players[2].Color # last.arg

\* C3: a MoveAs succeeds only on the mover's turn: the participant that moved
\* last is not to move, a further MoveAs by it fails whatever the move, and in
\* an active session the participant whose turn it is succeeds with a move the
\* engine accepts.
C3_TurnOrder ==
    /\ hist.lastMover # ZeroPlayer =>
          /\ Turn(Chess) = Other(hist.lastMover.Color)
          /\ \A n \in Notations : ~DoMoveOk(hist.lastMover, n)
    /\ (numPlayers = 2 /\ Chess.outcome = "NoOutcome") =>
          \A p \in Handles, n \in Notations :
             (p.Color = Turn(Chess) /\ EngineAccepts(Chess, n)) => DoMoveOk(p, n)

\* both sides have moved in turn, and the last mover's next MoveAs was refused
C3_Witness ==
    /\ Chess.ply = 2
    /\ numPlayers = 2
    /\ hist.lastMover.Color = "Black"
    /\ last = Result("move", "fail", hist.lastMover, "e7e5")

\* C5: when the second participant joins, each outbox gets exactly one
\* OpponentJoined event, carrying the other participant's identity and side
\* and the session's start and deadline.
C5_OpponentJoinedBoth ==
    /\ \A i \in 1..2 : Len(OfType(sentLog[i], "opponent")) <= 1
    /\ numPlayers < 2 => \A i \in 1..2 : OfType(sentLog[i], "opponent") = <<>>
    /\ (numPlayers = 2 /\ NoJoinInProgress) =>
          \A i \in 1..2 :
             OfType(sentLog[i], "opponent") =
                <<EventStarted(players[3 - i].Username, players[3 - i].Color = "Black",
                               StartTime, EndTime)>>

\* alice and bob have joined and each outbox got the event about the other
C5_Witness ==
    /\ numPlayers = 2 /\ NoJoinInProgress
    /\ players[1].Username = "alice" /\ players[2].Username = "bob"
    /\ Len(sentLog[1]) >= 1 /\ sentLog[1][1].OponentUsername = "bob"
    /\ Len(sentLog[2]) >= 1 /\ sentLog[2][1].OponentUsername = "alice"
    /\ sentLog[1][1].OpponentBlack # sentLog[2][1].OpponentBlack
    /\ sentLog[1][1].EndTime = EndTime

\* the step in which the MoveAs activation a does its send and returns
IsMoveSendOf(a) ==
    /\ BagIn(a, inflight)
    /\ a.pc = "move_send"
    /\ inflight' = inflight (-) SetToBag({a})

\* C4 (as claimed): once both participants have joined, every successful
\* MoveAs enqueues exactly one MoveMade event with the played notation to the
\* outbox of the other slot, and nothing to the mover's own outbox.
C4_EventToOtherSlotOnly ==
    [][\A a \in BagToSet(inflight) :
          (IsMoveSendOf(a) /\ a.both) =>
              /\ sentLog'[3 - a.player.Id] =
                     Append(sentLog[3 - a.player.Id], EventMove(a.move))
              /\ sentLog'[a.player.Id] = sentLog[a.player.Id]]_vars

\* the number of Resigned events ever enqueued to outbox i
ResignedCount(i) == Len(OfType(sentLog[i], "resign"))

\* C6 (as claimed): Resign calls for one participant enqueue the Resigned
\* event to the opponent's outbox at most once in total.
C6_ResignedAtMostOnce == \A i \in 1..2 : ResignedCount(i) <= 1

\* C7 (as claimed): every Resign returns and releases the lock: no Resign
\* sits on the lock at a send that can never happen.
C7_ResignReturns == ~(lockHolder.op = "resign_send" /\ lockHolder.opp = NilChan)

\* the channel the lock holder is about to send to
HolderTarget ==
    IF lockHolder.op = "join_send2" THEN lockHolder.player.Events ELSE lockHolder.opp

\* C8 (as claimed): no producer waits on a full outbox: Join, MoveAs and
\* Resign never hold the session lock at a send to an outbox of 10 events.
C8_NoProducerWaits ==
    ~(/\ lockHolder.op \in {"join_send1", "join_send2", "resign_send"}
      /\ HolderTarget # NilChan
      /\ Len(chan[HolderTarget]) >= ChanCap)

\* C9: a successful MoveAs that finds the opponent's outbox full drops the
\* MoveMade event, leaves the queued events as they are, and returns true
\* with its move applied to the position.
C9_FullOutboxDrops ==
    [][\A a \in BagToSet(inflight) :
          (IsMoveSendOf(a) /\ a.opp # NilChan /\ Len(chan[a.opp]) = ChanCap) =>
              /\ chan' = chan
              /\ sentLog' = sentLog
              /\ last' = Result("move", "ok_dropped", a.player, a.move)
              /\ Chess' = Chess
              /\ Chess.ply >= a.ply]_vars

\* a MoveAs has returned true after dropping its event at a full outbox
C9_Witness ==
    /\ last.op = "move" /\ last.res = "ok_dropped"
    /\ \E i \in 1..2 : Len(chan[i]) = ChanCap /\ chan[i] = sentLog[i]

\* the handlers, other than s, that still stream the other slot's outbox
OpponentStreams(s) ==
    {o \in Streams \ {s} : /\ stream[o].pc = "streaming"
                            /\ stream[o].player.Id = 3 - stream[s].player.Id}

\* handler s has left its loop while both participants were joined
LeftActive(s) ==
    /\ numPlayers = 2
    /\ stream[s].pc = "cleanup"

\* C10: a handler that leaves its loop, for whatever reason, goes on to the
\* deferred Resign; and once one participant of a two-participant session has
\* left, the session gets finished and the Resigned event is enqueued for the
\* participant that is still streaming.
C10_DisconnectResigns ==
    /\ [][\A s \in Streams :
            (stream[s].pc = "streaming" /\ stream'[s].pc # "streaming")
               => stream'[s].pc = "cleanup"]_vars
    /\ \A s \in Streams :
          LeftActive(s) ~>
             (/\ Chess.outcome # "NoOutcome"
              /\ stream[s].pc \in {"resigning", "done"}
              /\ \A o \in OpponentStreams(s) :
                    ResignedCount(stream[o].player.Events) >= 1)

\* s1 has gone, the session is finished and s2, still streaming, has the
\* Resigned event in its outbox
C10_Witness ==
    /\ stream["s1"].pc = "done"
    /\ stream["s2"].pc = "streaming"
    /\ Chess.outcome # "NoOutcome"
    /\ chan[stream["s2"].player.Events] # <<>>
    /\ chan[stream["s2"].player.Events][Len(chan[stream["s2"].player.Events])] = EventResigned

\* a step in which a Join call takes the lock: it counts a player in or is
\* refused
IsJoinCall == LockFree /\ (numPlayers' # numPlayers \/ hist'.joinFull # hist.joinFull)

\* C11: a Join on a session whose two slots are occupied returns
\* (Player{}, false) and leaves the slots, the participant count, the position
\* and both outboxes as they were
C11_FullJoinRefused ==
    [][(players[1] # ZeroPlayer /\ players[2] # ZeroPlayer /\ IsJoinCall)
          => /\ last'.op = "join" /\ last'.res = "full" /\ last'.player = ZeroPlayer
             /\ hist'.joinFull = hist.joinFull + 1
             /\ UNCHANGED <<players, numPlayers, Chess, chan, sentLog>>]_vars

\* a third Join was refused on a session with both slots occupied
C11_Witness ==
    /\ players[1] # ZeroPlayer /\ players[2] # ZeroPlayer
    /\ hist.joinFull = 1
    /\ last.op = "join" /\ last.res = "full"

\* the Player's username is in one of the two slots
InSlot(player) == player.Username = players[1].Username \/ player.Username = players[2].Username

C13_OutsiderResignNoOp ==
    [][/\ (LockFree /\ lockHolder'.op = "resign_send" /\ lockHolder'.player \notin Handles)
              => Chess' = Chess
       /\ (lockHolder.op = "resign_send" /\ lockHolder.player \notin Handles
              /\ lockHolder' = NoCall)
              => UNCHANGED <<chan, sentLog, shutDown>>]_vars

\* C14: once a Resign has completed (the session is finished), a later MoveAs
\* returns false and leaves the position as it is, and a later Resign is a
\* no-op: it enqueues nothing
C14_FinishedSessionFrozen ==
    [][shutDown =>
          /\ Chess' = Chess
          /\ (lockHolder.op = "resign_send" /\ lockHolder' = NoCall)
                 => UNCHANGED <<chan, sentLog>>]_vars

\* match k was created and its sweeper has not removed it
Live(k) == sweeper[k].pc # "stopped"

\* C15: GetMatch(id) finds nothing for an identifier that was never created or
\* whose session the sweeper has removed, and returns the session, found, for
\* an identifier created by NewMatch and not yet removed
C15_GetMatchFindsLive ==
    \A id \in Ids :
        /\ (\A k \in 1..Len(sweeper) : IDOf(k) = id => ~Live(k)) => ~GetMatch(id).ok
        /\ \A k \in 1..Len(sweeper) :
               (IDOf(k) = id /\ Live(k)) => GetMatch(id) = [match |-> k, ok |-> TRUE]

\* C16: identifiers are unique within the registry: NewMatch never inserts
\* under an identifier that is mapped to a session, and a sweeper deletes no
\* entry that belongs to another session
C16_IdsUnique ==
    [][/\ (Len(others') > Len(others)) => storage[others'[Len(others')].ID] = NoMatch
       /\ \A k \in 1..Len(sweeper) :
              (sweeper[k].pc = "delete" /\ sweeper'[k].pc = "stopped")
                  => storage[IDOf(k)] \in {k, NoMatch}]_vars

\* a step in which the sweeper of the first match wakes up and runs its select
IsSweepTick == sweeper[1].pc = "sleep" /\ sweeper'[1] # sweeper[1]

\* a step in which the sweeper of the first match deletes the entry and returns
IsSweepDelete == sweeper[1].pc = "delete" /\ sweeper'[1].pc = "stopped"

\* the participants present: the handlers that have joined the session and
\* have not yet called their deferred Resign
Participants == {s \in Streams : stream[s].pc \in {"joining", "streaming", "cleanup"}}

\* C17: at each sweep tick the sweeper removes its session from the registry
\* when the session has no participants (nobody has joined, or every
\* participant that joined has left) or when the time is past the deadline:
\* the tick takes a deleting branch, and that branch deletes the entry
C17_SweepRemovesIdleOrExpired ==
    [][/\ (IsSweepTick /\ (Participants = {} \/ now > EndTime))
              => sweeper'[1].pc = "delete"
       /\ IsSweepDelete => storage'[ID] = NoMatch]_vars

\* C18: the sweeper never removes a session while a Join is in progress on
\* it: whatever the interleaving of its emptiness check, its delete and a
\* Join, it does not delete the entry of a session that holds a participant,
\* is before its deadline and has seen no resignation
C18_NoSweepOfJoinedSession ==
    [][IsSweepDelete =>
          ~(numPlayers >= 1 /\ now <= EndTime /\ ~shutDown /\ hist.resigns = 0)]_vars

\* C19: after a Resign has completed on a session, the sweeper removes the
\* session at its next tick, before the deadline too, and then stops: a tick
\* that finds the context cancelled takes the ctx.Done() branch, that branch
\* deletes the entry, and a sweeper that has returned does nothing more
C19_SweepAfterResign ==
    [][/\ (IsSweepTick /\ shutDown) => sweeper'[1] = SweeperAt("delete", "ctx")
       /\ IsSweepDelete => storage'[ID] = NoMatch
       /\ sweeper[1].pc = "stopped" => UNCHANGED <<sweeper, storage>>]_vars

\* a Resign completed before the deadline and the sweeper, through its
\* ctx.Done() branch, has removed the session and returned
C19_Witness ==
    /\ shutDown /\ last.op = "resign" /\ last.res = "done"
    /\ now <= EndTime
    /\ sweeper[1] = SweeperAt("stopped", "ctx")
    /\ storage[ID] = NoMatch

\* C20: within one session the mutating sections of Join, doMove and Resign
\* exclude one another, and a board read under the read lock overlaps none
\* of them: no board read is inside while a Join or Resign holds the lock,
\* and the slots, the participant count and the position change neither
\* while a board read is inside nor while another call's section is open
C20_SectionsExclusive ==
    /\ [](~(lockHolder # NoCall /\ readers > 0))
    /\ [][(readers > 0 \/ lockHolder # NoCall)
             => UNCHANGED <<players, numPlayers, Chess>>]_vars

\* a board read is inside while the session has two participants, a move
\* applied and a MoveAs on its way to its send
C20_Witness ==
    /\ readers > 0
    /\ numPlayers = 2
    /\ Chess.ply = 1
    /\ inflight # EmptyBag

\* C21: the registry's lock is held only around the map operation and never
\* together with a session's lock: a step that writes the registry map
\* neither takes nor releases a session lock, and a registry operation is
\* ready whoever holds a session's lock (the sweeper's tick and delete, and
\* NewMatch, are never blocked by a Join, MoveAs or Resign in progress)
C21_RegistryLockAlone ==
    /\ [](\A k \in 1..Len(sweeper) :
             /\ (sweeper[k].pc = "sleep" /\ now >= sweeper[k].wake) => ENABLED SweepTick(k)
             /\ sweeper[k].pc = "delete" => ENABLED SweepDelete(k))
    /\ [](ENABLED (\E id \in Ids, d \in RequestedDurations : NewMatchOther(id, d)))
    /\ [][storage' # storage => UNCHANGED <<lockHolder, readers>>]_vars

\* while a Join holds the session's lock, waiting on its send, the sweeper of
\* that session has run its select and is about to delete the entry
C21_Witness ==
    /\ lockHolder.op \in {"join_send1", "join_send2"}
    /\ sweeper[1].pc = "delete"

\* the channel a handler drains, once its Join has returned
OutboxOf(s) == stream[s].player.Events

\* C22: a participant's stream forwards the events of its outbox in the order
\* in which they were enqueued, each at most once: what a handler has written
\* is an initial part of what was enqueued to its channel, and the events
\* still queued are the ones that follow, in order, those already taken
C22_ForwardedInOrder ==
    \A s \in Streams :
        OutboxOf(s) # NilChan =>
            LET sent == sentLog[OutboxOf(s)]
                fwd == stream[s].fwd
                queued == chan[OutboxOf(s)] IN
            /\ Len(fwd) <= Len(sent)
            /\ fwd = SubSeq(sent, 1, Len(fwd))
            /\ Len(queued) <= Len(sent)
            /\ queued = SubSeq(sent, Len(sent) - Len(queued) + 1, Len(sent))

\* a handler has written two events of different kinds, and a third is queued
C22_Witness ==
    \E s \in Streams :
        /\ Len(stream[s].fwd) = 2
        /\ stream[s].fwd[1].Type = "opponent" /\ stream[s].fwd[2].Type = "move"
        /\ Len(chan[OutboxOf(s)]) = 1

\* C23: a participant's stream ends as soon as it has forwarded a Resigned
\* event or its connection is cancelled, and it forwards nothing after a
\* Resigned event: the step that writes a resign event, and the step that
\* takes ctx.Done(), leave the loop; a handler outside the loop writes
\* nothing; a resign event is the last event a handler has written
C23_StreamEndsAtResign ==
    /\ [][\A s \in Streams :
            /\ (stream'[s].fwd # stream[s].fwd
                   /\ stream'[s].fwd[Len(stream'[s].fwd)].Type = "resign")
                  => stream'[s].pc = "cleanup"
            /\ stream[s].pc # "streaming" => stream'[s].fwd = stream[s].fwd]_vars
    /\ [](\A s \in Streams : \A i \in 1..Len(stream[s].fwd) :
             stream[s].fwd[i].Type = "resign" => i = Len(stream[s].fwd))

\* a handler has written the opponent's join and then the Resigned event,
\* and has returned
C23_Witness ==
    \E s \in Streams :
        /\ Len(stream[s].fwd) >= 2
        /\ stream[s].fwd[Len(stream[s].fwd)].Type = "resign"
        /\ stream[s].pc = "done"

\* C24: participant identities are unique within a session: the two occupied
\* slots never hold the same username
C24_IdentitiesUnique ==
    (players[1] # ZeroPlayer /\ players[2] # ZeroPlayer)
        => players[1].Username # players[2].Username

\* C25: GetPlayerFromUsername(identity) returns found with the stored
\* participant exactly when that identity has joined, and not found for every
\* identity that has not, whatever slots are empty (the lookup runs under
\* RLock, so when no Join or Resign holds the lock)
C25_LookupFindsJoined ==
    LockFree =>
        \A u \in Identities :
            LET r == GetPlayerFromUsername(u) IN
            /\ r.ok <=> (\E p \in Handles : p.Username = u)
            /\ r.ok => (r.player \in Handles /\ r.player.Username = u)
            /\ ~r.ok => r.player = ZeroPlayer

\* the duration a match created after the first was given
DurationOf(o) == o.EndTime - o.StartTime

\* C26: for every requested duration NewMatch sets the deadline to the
\* creation time plus the duration clamped into [1 minute, 12 hours]
C26_DeadlineClamped ==
    \A k \in 1..Len(others) :
        LET o == others[k] IN
        /\ o.Requested < Minute => DurationOf(o) = Minute
        /\ o.Requested > TwelveHours => DurationOf(o) = TwelveHours
        /\ (o.Requested >= Minute /\ o.Requested <= TwelveHours)
               => DurationOf(o) = o.Requested

\* NewMatch was called, after some time, with a negative duration
C26_Witness ==
    \E k \in 1..Len(others) :
        /\ others[k].Requested < 0 /\ others[k].Hours = 0
        /\ others[k].StartTime > 0
        /\ DurationOf(others[k]) = Minute

\* C27: for every non-zero number of hours N sent to the create-match
\* request the session lasts min(max(N hours, 1 minute), 12 hours), so 12
\* hours for every N >= 12; N = 0 is rejected and creates nothing
C27_HoursClamped ==
    /\ [](\A k \in 1..Len(others) :
             LET o == others[k] IN
             o.Hours # 0 =>
                 DurationOf(o) = IF o.Hours * 60 < Minute THEN Minute
                                 ELSE IF o.Hours * 60 > TwelveHours THEN TwelveHours
                                 ELSE o.Hours * 60)
    /\ [][(last' # last /\ last'.op = "create" /\ last'.res = "rejected")
             => UNCHANGED <<others, storage, sweeper>>]_vars

\* number of occupied slots
Occupied == Cardinality({i \in 1..2 : players[i] # ZeroPlayer})

\* an outcome is recorded: by a resignation or by the rule engine
Finished == Chess.outcome # "NoOutcome"

\* Pending 0, AwaitingOpponent 1, Active 2, Finished 3
StatusRank == IF Finished THEN 3 ELSE Occupied

\* C28: the status of a session only moves forward along Pending,
\* AwaitingOpponent, Active, Finished: the occupied-slot count and the
\* participant counter never decrease, and once an outcome is recorded no
\* step of Join, MoveAs or Resign takes it away, nor undoes the shut-down
C28_StatusForward ==
    [][/\ Occupied' >= Occupied
       /\ numPlayers' >= numPlayers
       /\ StatusRank' >= StatusRank
       /\ Finished => Finished'
       /\ shutDown => shutDown']_vars

\* a Join was answered after a resignation had been recorded and completed,
\* and the session is still finished
C28_Witness ==
    /\ LockFree
    /\ hist.resigns >= 1
    /\ last.op = "join" /\ last.res = "full"
    /\ Finished /\ Occupied = 2

\* alice joined as White and bob after her, two moves were made, the second
\* e7e5, and the last call to return was the one resignation, bob's
ScenarioDone ==
    /\ Quiet
    /\ players[1].Username = "alice" /\ players[1].Color = "White"
    /\ players[2].Username = "bob"
    /\ Chess.ply = 2 /\ Chess.last = "e7e5"
    /\ hist.resigns = 1
    /\ last = Result("resign", "done", players[2], "")

\* C29: after create(1 hour), Join(alice, white), Join(bob, any side),
\* MoveAs(alice, e2e4), MoveAs(alice, d2d4), MoveAs(bob, e7e5), Resign(bob),
\* with nothing consumed: alice's channel holds the opponent event for bob as
\* black, the move e7e5 and the resignation, bob's holds the opponent event
\* for alice as white and the move e2e4, and the session is finished; on the
\* way alice's d2d4 after her e2e4 fails and changes nothing
C29_Scenario ==
    /\ [](ScenarioDone =>
             /\ chan[1] = <<EventStarted("bob", TRUE, 0, 60), EventMove("e7e5"),
                            EventResigned>>
             /\ chan[2] = <<EventStarted("alice", FALSE, 0, 60), EventMove("e2e4")>>
             /\ Chess.outcome = "WhiteWon"
             /\ shutDown)
    /\ [][(Quiet /\ Chess.ply = 1 /\ last' # last
             /\ last'.player = players[1] /\ last'.arg = "d2d4")
          => (last'.res = "fail" /\ UNCHANGED <<Chess, chan>>)]_vars

\* the scenario has run to its end, alice's d2d4 having been refused on the way
C29_Witness == ScenarioDone /\ Len(chan[1]) = 3 /\ Len(chan[2]) = 2

\* the identity has joined match k
JoinedMatch(k, username) ==
    /\ k = 1
    /\ \E i \in 1..2 : players[i] # ZeroPlayer /\ players[i].Username = username

\* the side to move is a side the identity plays
CallersTurn(username) ==
    \E i \in 1..2 : /\ players[i] # ZeroPlayer
                    /\ players[i].Username = username
                    /\ players[i].Color = Turn(Chess)

\* a step in which the handler answers an identified caller
IsMoveReply == request' # request /\ request'.pc = "idle" /\ request'.username # ""

\* C30: a move request reports exactly one outcome, checked in this order:
\* not found when the id is not in the registry; not a participant when the
\* caller's identity has not joined the session found; invalid when it is not
\* the caller's turn or the rule engine rejects the move; success otherwise;
\* and only success changes the position
C30_MoveOutcome ==
    [][IsMoveReply =>
         LET r == request'
             sought == request.pc = "idle"
             joined == JoinedMatch(request.match, r.username)
             legal == CallersTurn(r.username) /\ EngineAccepts(Chess, r.move) IN
         /\ r.res \in {"not_found", "not_participant", "invalid", "ok"}
         /\ r.res = "not_found" <=> (sought /\ storage[r.id] = NoMatch)
         /\ r.res = "not_participant" <=> (~sought /\ ~joined)
         /\ r.res = "invalid" <=> (~sought /\ joined /\ ~legal)
         /\ r.res = "ok" <=> (~sought /\ joined /\ legal)
         /\ r.res = "ok" => Chess' # Chess
         /\ r.res # "ok" => Chess' = Chess]_vars

\* event e was produced by an operation applied under the lock before the
\* one that produced f: a move before a move of a higher ply, and, no move
\* being applied once a resignation is, any move before a resignation
AppliedBefore(e, f) ==
    /\ e.Type = "move"
    /\ \/ f.Type = "resign"
       \/ f.Type = "move" /\ PlyOfMove(e.Move) < PlyOfMove(f.Move)

\* C31: events appear in an outbox in the order in which the operations that
\* produced them were applied under the lock: no move event is enqueued
\* behind the event of a move applied later, nor behind the resignation
\* event of a later resignation by the same participant
C31_AppliedOrder ==
    \A c \in 1..2 :
        \A i, j \in 1..Len(sentLog[c]) :
            i < j => ~AppliedBefore(sentLog[c][j], sentLog[c][i])

\* C32: each channel has received at most one opponent event over its
\* lifetime, and that event is the first event ever enqueued to it: no move
\* or resignation event precedes it
C32_StartedOnceAndFirst ==
    \A c \in 1..2 :
        \A i \in 1..Len(sentLog[c]) : sentLog[c][i].Type = "opponent" => i = 1

\* the step in which the MoveAs activation a ends: its send, or no send
Completes(a) == BagIn(a, inflight) /\ a.pc = "move_send"
                    /\ inflight' = inflight (-) SetToBag({a})

\* C33: a MoveAs whose move was applied while only one participant had
\* joined enqueues no move event to any channel, so that a participant who
\* joins afterwards never receives an event for that move
C33_LoneMoveSilent ==
    [][\A a \in BagToSet(inflight) :
          (Completes(a) /\ ~a.both) => UNCHANGED <<chan, sentLog>>]_vars

\* the session stores the side of player for the identity of player
SideStored(player) ==
    \E i \in 1..2 : /\ players[i] # ZeroPlayer
                    /\ players[i].Username = player.Username
                    /\ players[i].Color = player.Color

\* C34: a move is applied only for the side the session stores for the
\* moving identity: MoveAs never applies a move for a Player value whose
\* Color differs from the Color of the slot holding its Username
C34_MoveOnlyForStoredSide ==
    [][Chess'.ply # Chess.ply => SideStored(hist'.lastMover)]_vars

\* a step in which doMove applies a move that passes its checks
IsMoveApplied ==
    /\ Chess' = ApplyMove(Chess, Chess'.last)
    /\ BagCardinality(inflight') = BagCardinality(inflight) + 1
    /\ InSlot(hist'.lastMover)
    /\ hist'.lastMover.Color = Turn(Chess)
    /\ EngineAccepts(Chess, Chess'.last)

\* a step in which Resign takes the lock and records the resignation
IsResignApplied == lockHolder = NoCall /\ lockHolder'.op = "resign_send"

\* a step of Join, of a board read, of the sweeper or of the clock, a GetMatch
\* or a lookup of a move request, or a MoveAs that fails
IsOtherStep ==
    \/ numPlayers' # numPlayers
    \/ lockHolder.op \in {"join_send1", "join_send2"}
    \/ readers' # readers
    \/ sweeper' # sweeper
    \/ storage' # storage
    \/ now' # now
    \/ request' # request /\ request'.res # "ok"
    \/ last' # last /\ last'.op = "move" /\ last'.res = "fail"

\* C35: the position is changed only by a successful MoveAs and by Resign:
\* Join, GetPlayerFromUsername, GetMatch, board reads, failed MoveAs calls
\* and the sweeper leave it unchanged
C35_PositionFrame ==
    [][/\ Chess' # Chess => (IsMoveApplied \/ IsResignApplied)
       /\ IsOtherStep => Chess' = Chess]_vars

\* a move was applied and a resignation recorded, a move request has been
\* refused as invalid, a board is being read and the sweeper has removed the
\* match
C35_Witness ==
    /\ Chess.ply = 1 /\ Chess.outcome # "NoOutcome"
    /\ request.res = "invalid"
    /\ readers > 0
    /\ storage[ID] = NoMatch

\* match k has been created
IsCreated(k) == k <= Len(sweeper)

\* no id of the registry leads to match k
Removed(k) == \A id \in Ids : storage[id] # k

\* C36: every sweeper terminates: under fair scheduling and advancing time
\* each created match is eventually removed from the registry and its sweeper
\* has exited; a tick after the deadline goes on to delete; the sweeper makes
\* one deletion and then exits for good; a removed match is never inserted
\* again
C36_SweeperTerminates ==
    /\ \A k \in 1..(MaxOthers + 1) :
           IsCreated(k) ~> (IsCreated(k) /\ Removed(k) /\ sweeper[k].pc = "stopped")
    /\ [][\A k \in 1..Len(sweeper) :
             /\ (sweeper[k].pc = "sleep" /\ sweeper'[k] # sweeper[k]
                    /\ now > EndTimeOf(k)) => sweeper'[k].pc = "delete"
             /\ (sweeper[k].pc = "delete" /\ sweeper'[k] # sweeper[k])
                    => (sweeper'[k].pc = "stopped" /\ storage'[IDOf(k)] = NoMatch)
             /\ sweeper[k].pc = "stopped" => sweeper'[k] = sweeper[k]
             /\ Removed(k) => \A id \in Ids : storage'[id] # k]_vars

\* the first match, joined by two, was removed by its sweeper after its
\* deadline, and a match created after it was removed by its own
C36_Witness ==
    /\ numPlayers = 2 /\ now > EndTime
    /\ sweeper[1].pc = "stopped" /\ sweeper[1].branch = "default" /\ Removed(1)
    /\ Len(sweeper) = 2 /\ sweeper[2].pc = "stopped" /\ Removed(2)

\* C37: removing a match from the registry changes the registry map only:
\* the sweeper's steps leave the slots, the participant count, the position
\* and the channels unchanged, enqueue no event and end no stream; once the
\* entry is gone GetMatch reports not found, while the callers that hold the
\* match can still Join, MoveAs and Resign on it
C37_SweepOnlyRegistry ==
    /\ [][(IsSweepTick \/ IsSweepDelete) =>
             UNCHANGED <<players, numPlayers, Chess, chan, sentLog, stream, shutDown,
                         lockHolder, inflight, request, hist, last>>]_vars
    /\ [](storage[ID] = NoMatch =>
             /\ ~GetMatch(ID).ok
             /\ CanLock =>
                  /\ \A s \in Streams :
                        stream[s].pc = "idle" => ENABLED StreamJoin(s, StreamUser(s), "White")
                  /\ \A s \in Streams :
                        stream[s].pc = "cleanup" => ENABLED StreamResign(s)
                  /\ (request.pc = "found" /\ PlayerOf(1, request.username).ok
                         /\ PlyBelow(MaxPlyStream) /\ InFlightBelow(MaxInFlightStream))
                        => ENABLED PutMoveMoveAs)

\* the sweeper found the first match idle and removed it; the handlers, which
\* held it, have since joined, a move was applied and one of them resigned
C37_Witness ==
    /\ sweeper[1].pc = "stopped" /\ sweeper[1].branch = "default" /\ now <= EndTime
    /\ storage[ID] = NoMatch
    /\ numPlayers = 2 /\ Chess.ply = 1 /\ Chess.outcome # "NoOutcome"
    /\ request.res = "ok"

\* a step in which a Join of the earlier revision returns
IsOldJoin == oldMatch'.calls = oldMatch.calls + 1

\* C38: in the earlier revision Join admits the first two callers with the
\* ids 1 and 2, and returns ok = false only once 2 players have joined
C38_OldJoinAdmitsTwo ==
    [][IsOldJoin =>
          /\ oldMatch.numPlayers < 2 =>
                 /\ oldMatch'.last.ok
                 /\ oldMatch'.last.id = oldMatch.numPlayers + 1
                 /\ oldMatch'.numPlayers = oldMatch.numPlayers + 1
          /\ ~oldMatch'.last.ok => oldMatch.numPlayers >= 2]_vars

====
